---- MODULE Spec2Model ----
(***************************************************************************)
(* Model of batch-file-renamer.py: the filename transform, the validators, *)
(* the directory scan, the preview/confirm gate of main() and the rename   *)
(* loop of apply_renames.                                                  *)
(*                                                                         *)
(* A Python str is a sequence of one-character strings.  The NUL character *)
(* is written "NUL".                                                       *)
(***************************************************************************)
EXTENDS Integers, Sequences, FiniteSets, TLC

VARIABLES
    t_pc,             \* transform harness: "off", "input", "once", "twice"
    t_name,           \* original_filename handed to generate_new_filename
    t_replacement,    \* replacement argument
    t_prefix,         \* prefix argument
    t_suffix,         \* suffix argument
    t_out,            \* results of the successive applications
    pc,               \* position of main(): "off", "start", "scan", "walk",
                      \* "preview", "previewed", "apply", "done"
    args,             \* parsed command line: directory, replace, prefix,
                      \* suffix, apply, recursive
    fs,               \* files of each directory: name -> content
    fs0,              \* history: fs when the run started
    walk_stack,       \* os.walk: directories still to visit
    cur_dir,          \* directory whose names are being iterated
    pending,          \* names of cur_dir not iterated yet
    files_to_rename,  \* list built by collect_files_to_rename
    stats,            \* stats dict of collect_files_to_rename
    encountered,      \* history: files counted by the scan, in order
    denied,           \* history: directories whose listing was denied
    response,         \* what the operator typed at the prompt
    prompted,         \* the prompt was shown
    idx,              \* position of the loop of apply_renames
    success_count,    \* apply_renames counters
    error_count,
    log_entries,      \* lines collected for the log
    log_path,         \* "none" or "written"
    exit_code,        \* -1 while running, then the return value of main()
    error_message     \* which validation message was printed

tvars == <<t_pc, t_name, t_replacement, t_prefix, t_suffix, t_out>>

scanvars == <<walk_stack, cur_dir, pending, files_to_rename, stats,
              encountered, denied>>

applyvars == <<idx, success_count, error_count, log_entries, log_path>>

mvars == <<pc, args, fs, fs0, scanvars, response, prompted, applyvars, exit_code,
           error_message>>

vars == <<tvars, mvars>>

(***************************************************************************)
(* Bounds                                                                  *)
(***************************************************************************)
MaxNameLen == 4

MaxRootFiles == 3

\* The cap on scanned files.  The program sets it to 10000; the scan only
\* compares the counter with it, so the model scales it down to a value
\* that the directory trees here can exceed.
MAX_FILES_LIMIT == 2

(***************************************************************************)
(* Program constants                                                       *)
(***************************************************************************)
MAX_REPLACEMENT_LEN == 10

MAX_PREFIX_SUFFIX_LEN == 100

(***************************************************************************)
(* String helpers (Python str methods)                                     *)
(***************************************************************************)
\* c * n
Rep(c, n) == [i \in 1..n |-> c]

\* s.startswith('.')
StartsWithDot(s) == Len(s) > 0 /\ s[1] = "."

\* s.rfind(c), 1-based; 0 stands for Python's -1
RFind(s, c) ==
    IF \E i \in 1..Len(s) : s[i] = c
    THEN CHOOSE i \in 1..Len(s) : s[i] = c /\ \A j \in (i+1)..Len(s) : s[j] # c
    ELSE 0

\* s.count(c)
Count(s, c) == Cardinality({i \in 1..Len(s) : s[i] = c})

RECURSIVE Replace(_, _, _)
\* s.replace(c, rep) for a one-character c: left to right, the inserted text
\* is not scanned again
Replace(s, c, rep) ==
    IF s = <<>> THEN <<>>
    ELSE (IF Head(s) = c THEN rep ELSE <<Head(s)>>) \o Replace(Tail(s), c, rep)

\* the set of characters of s
Chars(s) == {s[i] : i \in 1..Len(s)}

(***************************************************************************)
(* Validators                                                              *)
(***************************************************************************)
invalid_chars == {"/", "\\", ":", "*", "?", "\"", "<", ">", "|", "NUL"}

validate_replacement_char(replacement) ==
    /\ Chars(replacement) \cap invalid_chars = {}
    /\ Len(replacement) <= MAX_REPLACEMENT_LEN

\* mutant: the length is not checked
validate_prefix_suffix_nolen(value) ==
    \/ value = <<>>
    \/ Chars(value) \cap invalid_chars = {}

validate_prefix_suffix(value) ==
    \/ value = <<>>
    \/ /\ Chars(value) \cap invalid_chars = {}
       /\ Len(value) <= MAX_PREFIX_SUFFIX_LEN

(***************************************************************************)
(* Transform                                                               *)
(***************************************************************************)
\* base_name / extension split at the last dot
base_name(original_filename) ==
    IF RFind(original_filename, ".") = 0 THEN original_filename
    ELSE SubSeq(original_filename, 1, RFind(original_filename, ".") - 1)

extension(original_filename) ==
    IF RFind(original_filename, ".") = 0 THEN <<>>
    ELSE SubSeq(original_filename, RFind(original_filename, "."),
                Len(original_filename))

needs_char_replacement(original_filename) ==
    \/ Count(base_name(original_filename), ".") > 0
    \/ Count(base_name(original_filename), " ") > 0

\* mutant: the extension is cut after its dot
generate_new_filename_noext(original_filename, replacement, prefix, suffix) ==
    IF original_filename = <<>>
    THEN [new_filename |-> <<>>, was_changed |-> FALSE, raised |-> TRUE]
    ELSE IF StartsWithDot(original_filename)
    THEN [new_filename |-> original_filename, was_changed |-> FALSE,
          raised |-> FALSE]
    ELSE IF ~needs_char_replacement(original_filename)
            /\ prefix = <<>> /\ suffix = <<>>
    THEN [new_filename |-> original_filename, was_changed |-> FALSE,
          raised |-> FALSE]
    ELSE LET b == base_name(original_filename)
             nb == IF needs_char_replacement(original_filename)
                   THEN Replace(Replace(b, ".", replacement), " ", replacement)
                   ELSE b
             e == extension(original_filename)
             new == prefix \o nb \o suffix
                    \o (IF e = <<>> THEN <<>> ELSE <<".">>)
         IN [new_filename |-> new, was_changed |-> (new # original_filename),
             raised |-> FALSE]

\* generate_new_filename: raised stands for the AssertionError of the two
\* entry assertions (a str argument is always given; the empty name raises)
generate_new_filename(original_filename, replacement, prefix, suffix) ==
    IF original_filename = <<>>
    THEN [new_filename |-> <<>>, was_changed |-> FALSE, raised |-> TRUE]
    ELSE IF StartsWithDot(original_filename)
    THEN [new_filename |-> original_filename, was_changed |-> FALSE,
          raised |-> FALSE]
    ELSE IF ~needs_char_replacement(original_filename)
            /\ prefix = <<>> /\ suffix = <<>>
    THEN [new_filename |-> original_filename, was_changed |-> FALSE,
          raised |-> FALSE]
    ELSE LET b == base_name(original_filename)
             nb == IF needs_char_replacement(original_filename)
                   THEN Replace(Replace(b, ".", replacement), " ", replacement)
                   ELSE b
             new == prefix \o nb \o suffix \o extension(original_filename)
         IN [new_filename |-> new, was_changed |-> (new # original_filename),
             raised |-> FALSE]

(***************************************************************************)
(* The directory tree.  A path is a directory and a name                   *)
(* (os.path.join(root, filename)); the content of a file is the path it    *)
(* had when the run started.                                               *)
(***************************************************************************)
DirIds == {"root", "sub", "hid", "deep"}

\* the places of the tree: root/s, root/.g, root/.g/t
TreeShape(d) ==
    CASE d = "root" -> {[name |-> <<"s">>, id |-> "sub"],
                        [name |-> <<".", "g">>, id |-> "hid"]}
      [] d = "hid"  -> {[name |-> <<"t">>, id |-> "deep"]}
      [] OTHER      -> {}

\* the subdirectories of each directory: those of the tree that exist
subdirs(d) == {sd \in TreeShape(d) : sd.id \in DOMAIN fs}

SubdirNames(d) == {sd.name : sd \in subdirs(d)}

\* os.path.join(directory, filename)
join(d, filename) == [dir |-> d, name |-> filename]

\* os.path.exists(path): a file or a subdirectory of that name; the empty
\* name is the directory itself, "." and ".." are always there
PathExists(f, path) ==
    \/ path.name \in {<<>>, <<".">>, <<".", ".">>}
    \/ path.name \in DOMAIN f[path.dir]
    \/ path.name \in SubdirNames(path.dir)

\* os.rename(orig_path, new_path) once it succeeds
Renamed(f, orig_path, new_path) ==
    [f EXCEPT ![orig_path.dir] =
        [n \in (DOMAIN @ \ {orig_path.name}) \cup {new_path.name} |->
            IF n = new_path.name THEN @[orig_path.name] ELSE @[n]]]

\* the files of a directory at the start of a run
FilesOf(d, names) == [n \in names |-> join(d, n)]

RootPool == {<<"a", ".", "a", ".", "a">>, <<"a", " ", "a", ".", "a">>,
             <<"a", "_", "a", ".", "a">>, <<".", "h">>, <<" ">>}

SubPool == {<<"b", " ", "b">>, <<".", "k">>}

\* hidden files only
HiddenPool == {<<".", "h">>, <<".", "i">>, <<".", "j">>}

\* names of which one is the new name of the other under prefix 'a'
ChainPool == {<<"a">>, <<"a", "a">>}

RootChoices ==
    {x \in SUBSET RootPool : Cardinality(x) <= MaxRootFiles}
        \cup SUBSET HiddenPool \cup SUBSET ChainPool

Tree(dirs, r, s) ==
    [d \in dirs |->
        CASE d = "root" -> FilesOf(d, r)
          [] d = "sub"  -> FilesOf(d, s)
          [] d = "hid"  -> FilesOf(d, {<<"c", " ", "c">>})
          [] OTHER      -> FilesOf(d, {<<"d", ".", "d", ".", "d">>})]

\* the trees a run starts from; root/s is missing from some of those whose
\* root holds hidden files only
InitialTrees ==
    {Tree(DirIds, r, s) : r \in RootChoices,
                          s \in {x \in SUBSET SubPool : x # {}}}
        \cup {Tree(DirIds \ {"sub"}, r, {}) : r \in SUBSET HiddenPool}

(***************************************************************************)
(* Command line and operator                                               *)
(***************************************************************************)

Directories == {"dir", "file", "missing"}

Replacements == {<<"_">>, <<>>, <<"/">>, Rep("_", MAX_REPLACEMENT_LEN + 1)}

Prefixes == {<<>>, <<"a">>, <<":">>, Rep("a", MAX_PREFIX_SUFFIX_LEN + 1)}

Suffixes == {<<>>, <<"*">>, Rep("s", MAX_PREFIX_SUFFIX_LEN + 1)}

Responses == {<<"y", "e", "s">>, <<"Y", "E", "S">>, <<" ", "y", "e", "s", " ">>,
              <<"n", "o">>, <<"y">>, <<>>}

\* str.lower() on the characters an operator types here
LowerChar(c) ==
    CASE c = "Y" -> "y" [] c = "E" -> "e" [] c = "S" -> "s"
      [] c = "N" -> "n" [] c = "O" -> "o" [] OTHER -> c

lower(s) == [i \in 1..Len(s) |-> LowerChar(s[i])]

IsWhitespace(c) == c \in {" ", "\t", "\n"}

RECURSIVE lstrip(_)
lstrip(s) == IF s # <<>> /\ IsWhitespace(Head(s)) THEN lstrip(Tail(s)) ELSE s

RECURSIVE rstrip(_)
rstrip(s) ==
    IF s # <<>> /\ IsWhitespace(s[Len(s)])
    THEN rstrip(SubSeq(s, 1, Len(s) - 1)) ELSE s

\* str.strip()
strip(s) == rstrip(lstrip(s))

\* mutant: the answer is not looked at
confirmed_any(resp) == TRUE

\* response = input(...).strip().lower(); response != 'yes' cancels
confirmed(resp) == lower(strip(resp)) = <<"y", "e", "s">>

\* validate_directory on the absolute path
validate_directory(directory) == directory = "dir"

EmptyStats ==
    [total_files_scanned |-> 0, hidden_files_skipped |-> 0,
     hidden_dirs_skipped |-> 0, files_already_clean |-> 0,
     files_to_rename |-> 0, directories_scanned |-> 0]

MainOff ==
    /\ pc = "off"
    /\ args = [directory |-> "dir", replace |-> <<>>, prefix |-> <<>>,
               suffix |-> <<>>, apply |-> FALSE, recursive |-> FALSE]
    /\ fs = [d \in DirIds |-> FilesOf(d, {})]
    /\ fs0 = fs
    /\ walk_stack = <<>>
    /\ cur_dir = "root"
    /\ pending = {}
    /\ files_to_rename = <<>>
    /\ stats = EmptyStats
    /\ encountered = <<>>
    /\ denied = {}
    /\ response = <<>>
    /\ prompted = FALSE
    /\ idx = 0
    /\ success_count = 0
    /\ error_count = 0
    /\ log_entries = <<>>
    /\ log_path = "none"
    /\ exit_code = -1
    /\ error_message = "none"

TransformOff ==
    /\ t_pc = "off"
    /\ t_name = <<>>
    /\ t_replacement = <<>>
    /\ t_prefix = <<>>
    /\ t_suffix = <<>>
    /\ t_out = <<>>

Init ==
    /\ TransformOff
    /\ pc = "start"
    /\ args \in [directory : Directories, replace : Replacements,
                 prefix : Prefixes, suffix : Suffixes, apply : BOOLEAN,
                 recursive : BOOLEAN]
    /\ fs \in InitialTrees
    /\ fs0 = fs
    /\ walk_stack = <<>>
    /\ cur_dir = "root"
    /\ pending = {}
    /\ files_to_rename = <<>>
    /\ stats = EmptyStats
    /\ encountered = <<>>
    /\ denied = {}
    /\ response = <<>>
    /\ prompted = FALSE
    /\ idx = 0
    /\ success_count = 0
    /\ error_count = 0
    /\ log_entries = <<>>
    /\ log_path = "none"
    /\ exit_code = -1
    /\ error_message = "none"

(***************************************************************************)
(* main(): validation                                                      *)
(***************************************************************************)
\* the first check that fails, in the order main() runs them
FirstFailure(a) ==
    IF ~validate_directory(a.directory) THEN "directory"
    ELSE IF ~validate_replacement_char(a.replace) THEN "replacement"
    ELSE IF ~validate_prefix_suffix(a.prefix) THEN "prefix"
    ELSE IF ~validate_prefix_suffix(a.suffix) THEN "suffix"
    ELSE "none"

Validate ==
    /\ pc = "start"
    /\ error_message' = FirstFailure(args)
    /\ IF FirstFailure(args) # "none"
       THEN pc' = "done" /\ exit_code' = 1
       ELSE pc' = "scan" /\ exit_code' = exit_code
    /\ UNCHANGED <<tvars, args, fs, fs0, scanvars, response, prompted, applyvars>>

(***************************************************************************)
(* collect_files_to_rename                                                 *)
(***************************************************************************)
\* mutant: the cap is never reached
cap_exceeded_never(total) == FALSE

\* stats['total_files_scanned'] > MAX_FILES_LIMIT
cap_exceeded(total) == total > MAX_FILES_LIMIT

\* mutant: a file the transform leaves alone is listed all the same
Classify_listall(filename, a) ==
    IF StartsWithDot(filename) THEN "hidden" ELSE "rename"

\* what the loop body does with a counted file
Classify(filename, a) ==
    IF StartsWithDot(filename) THEN "hidden"
    ELSE IF generate_new_filename(filename, a.replace, a.prefix,
                                  a.suffix).was_changed
    THEN "rename"
    ELSE "clean"

\* the tuple appended to files_to_rename
ScanEntry(d, filename, a) ==
    [original_path |-> join(d, filename),
     new_path |-> join(d, generate_new_filename(filename, a.replace, a.prefix,
                                                a.suffix).new_filename),
     original_name |-> filename,
     new_name |-> generate_new_filename(filename, a.replace, a.prefix,
                                        a.suffix).new_filename]

\* mutant: a denied listing ends the run
StartScan_fatal ==
    /\ pc = "scan"
    /\ IF args.recursive
       THEN /\ walk_stack' = <<"root">>
            /\ pc' = "walk"
            /\ UNCHANGED <<cur_dir, pending, stats, denied, exit_code>>
       ELSE /\ \E readable \in BOOLEAN :
                IF readable
                THEN /\ pending' = DOMAIN fs["root"] \cup SubdirNames("root")
                     /\ pc' = "walk"
                     /\ UNCHANGED <<denied, exit_code>>
                ELSE /\ pending' = {}
                     /\ denied' = denied \cup {"root"}
                     /\ pc' = "done"
                     /\ exit_code' = 1
            /\ stats' = [stats EXCEPT !.directories_scanned = 1]
            /\ cur_dir' = "root"
            /\ UNCHANGED walk_stack
    /\ UNCHANGED <<tvars, args, fs, fs0, files_to_rename, encountered,
                   response, prompted, applyvars, error_message>>

\* entry of collect_files_to_rename: the walk starts at the root, or the
\* root is listed; a PermissionError of os.listdir returns at once
StartScan ==
    /\ pc = "scan"
    /\ IF args.recursive
       THEN /\ walk_stack' = <<"root">>
            /\ pc' = "walk"
            /\ UNCHANGED <<cur_dir, pending, stats, denied>>
       ELSE /\ \E readable \in BOOLEAN :
                IF readable
                THEN /\ pending' = DOMAIN fs["root"] \cup SubdirNames("root")
                     /\ pc' = "walk"
                     /\ UNCHANGED denied
                ELSE /\ pending' = {}
                     /\ denied' = denied \cup {"root"}
                     /\ pc' = "preview"
            /\ stats' = [stats EXCEPT !.directories_scanned = 1]
            /\ cur_dir' = "root"
            /\ UNCHANGED walk_stack
    /\ UNCHANGED <<tvars, args, fs, fs0, files_to_rename, encountered,
                   response, prompted, applyvars, exit_code, error_message>>

\* the visible subdirectories of d, in the order the walk descends
RECURSIVE SeqOf(_)
SeqOf(S) == IF S = {} THEN <<>>
            ELSE LET x == CHOOSE y \in S : TRUE IN <<x>> \o SeqOf(S \ {x})

\* mutant: hidden subdirectories are walked too
VisibleSubdirs_all(d) == SeqOf({sd.id : sd \in subdirs(d)})

VisibleSubdirs(d) == SeqOf({sd.id : sd \in {x \in subdirs(d) :
                                              ~StartsWithDot(x.name)}})

HiddenSubdirs(d) == {sd \in subdirs(d) : StartsWithDot(sd.name)}

\* one iteration of `for root, dirs, files in os.walk(...)`, up to the file
\* loop: os.walk skips a directory it may not list (onerror is None)
WalkNext ==
    /\ pc = "walk"
    /\ args.recursive
    /\ pending = {}
    /\ walk_stack # <<>>
    /\ \E readable \in BOOLEAN :
        IF readable
        THEN /\ stats' = [stats EXCEPT
                    !.directories_scanned = @ + 1,
                    !.hidden_dirs_skipped =
                        @ + Cardinality(HiddenSubdirs(Head(walk_stack)))]
             /\ cur_dir' = Head(walk_stack)
             /\ pending' = DOMAIN fs[Head(walk_stack)]
             /\ walk_stack' = VisibleSubdirs(Head(walk_stack))
                              \o Tail(walk_stack)
             /\ UNCHANGED denied
        ELSE /\ denied' = denied \cup {Head(walk_stack)}
             /\ walk_stack' = Tail(walk_stack)
             /\ UNCHANGED <<stats, cur_dir, pending>>
    /\ UNCHANGED <<tvars, pc, args, fs, fs0, files_to_rename, encountered,
                   response, prompted, applyvars, exit_code, error_message>>

\* one iteration of `for filename in files` / `for filename in entries`
ScanFile ==
    /\ pc = "walk"
    /\ pending # {}
    /\ \E filename \in pending :
        IF ~args.recursive /\ filename \in SubdirNames(cur_dir)
        THEN /\ stats' = IF StartsWithDot(filename)
                         THEN [stats EXCEPT !.hidden_dirs_skipped = @ + 1]
                         ELSE stats
             /\ pending' = pending \ {filename}
             /\ UNCHANGED <<pc, walk_stack, files_to_rename, encountered>>
        ELSE /\ encountered' = Append(encountered, join(cur_dir, filename))
             /\ IF cap_exceeded(stats.total_files_scanned + 1)
                THEN /\ stats' = [stats EXCEPT !.total_files_scanned = @ + 1]
                     /\ pc' = "preview"
                     /\ pending' = {}
                     /\ walk_stack' = <<>>
                     /\ UNCHANGED files_to_rename
                ELSE /\ pending' = pending \ {filename}
                     /\ UNCHANGED <<pc, walk_stack>>
                     /\ LET kind == Classify(filename, args) IN
                        /\ stats' = [stats EXCEPT
                              !.total_files_scanned = @ + 1,
                              !.hidden_files_skipped =
                                  IF kind = "hidden" THEN @ + 1 ELSE @,
                              !.files_to_rename =
                                  IF kind = "rename" THEN @ + 1 ELSE @,
                              !.files_already_clean =
                                  IF kind = "clean" THEN @ + 1 ELSE @]
                        /\ files_to_rename' =
                              IF kind = "rename"
                              THEN Append(files_to_rename,
                                          ScanEntry(cur_dir, filename, args))
                              ELSE files_to_rename
    /\ UNCHANGED <<tvars, args, fs, fs0, cur_dir, denied, response, prompted,
                   applyvars, exit_code, error_message>>

\* the loops are over: return files_to_rename, stats
ScanReturn ==
    /\ pc = "walk"
    /\ pending = {}
    /\ walk_stack = <<>>
    /\ pc' = "preview"
    /\ UNCHANGED <<tvars, args, fs, fs0, scanvars, response, prompted,
                   applyvars, exit_code, error_message>>

(***************************************************************************)
(* main(): preview and confirmation gate                                   *)
(***************************************************************************)
\* display_preview prints and changes nothing
DisplayPreview ==
    /\ pc = "preview"
    /\ pc' = "previewed"
    /\ UNCHANGED <<tvars, args, fs, fs0, scanvars, response, prompted,
                   applyvars, exit_code, error_message>>

\* not args.apply: instructions, return 0
DryRunExit ==
    /\ pc = "previewed"
    /\ ~args.apply
    /\ pc' = "done"
    /\ exit_code' = 0
    /\ UNCHANGED <<tvars, args, fs, fs0, scanvars, response, prompted,
                   applyvars, error_message>>

\* args.apply with an empty list: return 0
NothingToApply ==
    /\ pc = "previewed"
    /\ args.apply
    /\ files_to_rename = <<>>
    /\ pc' = "done"
    /\ exit_code' = 0
    /\ UNCHANGED <<tvars, args, fs, fs0, scanvars, response, prompted,
                   applyvars, error_message>>

\* args.apply with entries: the prompt, then cancel or enter apply_renames
Confirm ==
    /\ pc = "previewed"
    /\ args.apply
    /\ files_to_rename # <<>>
    /\ \E r \in Responses :
        /\ response' = r
        /\ prompted' = TRUE
        /\ IF confirmed(r)
           THEN /\ pc' = "apply"
                /\ idx' = 1
                /\ UNCHANGED exit_code
           ELSE /\ pc' = "done"
                /\ exit_code' = 0
                /\ UNCHANGED idx
    /\ UNCHANGED <<tvars, args, fs, fs0, scanvars, success_count, error_count,
                   log_entries, log_path, error_message>>

(***************************************************************************)
(* apply_renames                                                           *)
(***************************************************************************)
\* mutant: the destination is never looked at
destination_exists_never(f, path) == FALSE

\* os.path.exists(new_path)
destination_exists(f, path) == PathExists(f, path)

LogLine(kind, e, detail) ==
    [kind |-> kind, original_path |-> e.original_path, detail |-> detail]

\* mutant: the rename is done although the destination exists
Skip_overwrite(e) ==
    /\ fs' = Renamed(fs, e.original_path, e.new_path)
    /\ log_entries' = Append(log_entries, LogLine("RENAMED", e, e.new_path))
    /\ success_count' = success_count + 1
    /\ idx' = idx + 1
    /\ UNCHANGED <<error_count, pc, exit_code>>

\* destination exists: SKIPPED, counted as an error, continue
Skip(e) ==
    /\ log_entries' = Append(log_entries, LogLine("SKIPPED", e, e.new_path))
    /\ error_count' = error_count + 1
    /\ idx' = idx + 1
    /\ UNCHANGED <<fs, success_count, pc, exit_code>>

\* os.rename returned
Rename(e) ==
    /\ fs' = Renamed(fs, e.original_path, e.new_path)
    /\ log_entries' = Append(log_entries, LogLine("RENAMED", e, e.new_path))
    /\ success_count' = success_count + 1
    /\ idx' = idx + 1
    /\ UNCHANGED <<error_count, pc, exit_code>>

\* mutant: the exception leaves the loop
Failed_abort(e, reason) ==
    /\ pc' = "done"
    /\ exit_code' = 1
    /\ UNCHANGED <<fs, success_count, error_count, log_entries, idx>>

\* os.rename raised PermissionError or another OSError: FAILED, counted
Failed(e, reason) ==
    /\ log_entries' = Append(log_entries, LogLine("FAILED", e, reason))
    /\ error_count' = error_count + 1
    /\ idx' = idx + 1
    /\ UNCHANGED <<fs, success_count, pc, exit_code>>

RenameOutcomes == {"ok", "Permission denied", "OSError"}

\* one iteration of `for orig_path, new_path, orig_name, new_name in ...`
ApplyStep ==
    /\ pc = "apply"
    /\ idx <= Len(files_to_rename)
    /\ LET e == files_to_rename[idx] IN
        IF destination_exists(fs, e.new_path)
        THEN Skip(e)
        ELSE \E outcome \in RenameOutcomes :
                IF outcome = "ok" THEN Rename(e) ELSE Failed(e, outcome)
    /\ UNCHANGED <<tvars, args, fs0, scanvars, response, prompted, log_path,
                   error_message>>

\* after the loop: the log file is written, or cannot be; main() prints the
\* summary and returns 0
WriteLog ==
    /\ pc = "apply"
    /\ idx > Len(files_to_rename)
    /\ \E written \in BOOLEAN :
        log_path' = IF written THEN "written" ELSE "none"
    /\ pc' = "done"
    /\ exit_code' = 0
    /\ UNCHANGED <<tvars, args, fs, fs0, scanvars, response, prompted, idx,
                   success_count, error_count, log_entries, error_message>>

Next ==
    \/ Validate
    \/ StartScan
    \/ WalkNext
    \/ ScanFile
    \/ ScanReturn
    \/ DisplayPreview
    \/ DryRunExit
    \/ NothingToApply
    \/ Confirm
    \/ ApplyStep
    \/ WriteLog

Spec == Init /\ [][Next]_vars

(***************************************************************************)
(* Claims about main(), the scan and apply_renames                         *)
(***************************************************************************)
Yes == <<"y", "e", "s">>

DirectoryUnchanged == fs = fs0 /\ log_path = "none"

\* C1 as stated, for the runs that come to the gate of main(): a rename
\* happens only with --apply, at least one entry and a response that is
\* exactly the affirmative response; any other response, and any run
\* without --apply, ends with exit code 0 and the directory unchanged.
C1_ExactResponseGate ==
    error_message = "none" =>
        /\ (fs # fs0 \/ pc = "apply") =>
               /\ args.apply
               /\ files_to_rename # <<>>
               /\ prompted
               /\ response = Yes
        /\ (pc = "done" /\ (~args.apply \/ (prompted /\ response # Yes))) =>
               exit_code = 0 /\ DirectoryUnchanged

\* C1 amended: a rename happens only with --apply, at least one entry and a
\* response that is 'yes' once surrounding whitespace is stripped and it is
\* lower-cased; any other response, and any run without --apply that passed
\* validation, ends with exit code 0 and the directory unchanged.
C1_ConfirmGate ==
    /\ (fs # fs0 \/ pc = "apply" \/ log_path # "none") =>
           /\ args.apply
           /\ files_to_rename # <<>>
           /\ prompted
           /\ lower(strip(response)) = Yes
    /\ (/\ pc = "done"
        /\ error_message = "none"
        /\ ~args.apply \/ (prompted /\ lower(strip(response)) # Yes)) =>
           exit_code = 0 /\ DirectoryUnchanged

\* a file was renamed after the operator typed ' yes '
C1_Witness ==
    /\ pc = "done"
    /\ fs # fs0
    /\ response = <<" ", "y", "e", "s", " ">>

\* a run with --apply and entries was cancelled by 'no'
C1_WitnessCancel ==
    /\ pc = "done"
    /\ args.apply
    /\ files_to_rename # <<>>
    /\ response = <<"n", "o">>
    /\ exit_code = 0

AtEntry == pc = "apply" /\ idx <= Len(files_to_rename)

\* C2: an entry whose destination exists when it is processed is skipped:
\* the filesystem is not touched, error_count goes up by one, success_count
\* stays, a SKIPPED line is recorded, and the original file and the file at
\* the destination are both still there with their contents.
C2_ExistingDestinationSkipped ==
    [][(AtEntry /\ PathExists(fs, files_to_rename[idx].new_path)) =>
        LET e == files_to_rename[idx] IN
        /\ fs' = fs
        /\ error_count' = error_count + 1
        /\ success_count' = success_count
        /\ Len(log_entries') = Len(log_entries) + 1
        /\ log_entries'[Len(log_entries')].kind = "SKIPPED"
        /\ log_entries'[Len(log_entries')].original_path = e.original_path
        /\ e.original_name \in DOMAIN fs'[e.original_path.dir]
        /\ fs'[e.original_path.dir][e.original_name] = e.original_path
        /\ e.new_name \in DOMAIN fs[e.new_path.dir] =>
               /\ e.new_name \in DOMAIN fs'[e.new_path.dir]
               /\ fs'[e.new_path.dir][e.new_name] = fs[e.new_path.dir][e.new_name]
      ]_vars

\* an entry was skipped because a file of its new name was there, and both
\* files are present
C2_Witness ==
    /\ pc = "apply"
    /\ idx > 1
    /\ log_entries[idx - 1].kind = "SKIPPED"
    /\ files_to_rename[idx - 1].new_name \in DOMAIN fs["root"]
    /\ files_to_rename[idx - 1].original_name \in DOMAIN fs["root"]

ReservedChars == {"/", "\\", ":", "*", "?", "\"", "<", ">", "|", "NUL"}

NoReserved(s) == \A i \in 1..Len(s) : s[i] \notin ReservedChars

\* the first of the four checks that the command line fails, "none" if all
\* four pass
FirstFailingCheck ==
    IF args.directory # "dir" THEN "directory"
    ELSE IF ~(NoReserved(args.replace) /\ Len(args.replace) <= 10)
    THEN "replacement"
    ELSE IF ~(NoReserved(args.prefix) /\ Len(args.prefix) <= 100)
    THEN "prefix"
    ELSE IF ~(NoReserved(args.suffix) /\ Len(args.suffix) <= 100)
    THEN "suffix"
    ELSE "none"

ScanNotStarted ==
    /\ stats = EmptyStats
    /\ files_to_rename = <<>>
    /\ encountered = <<>>
    /\ denied = {}
    /\ pending = {}
    /\ walk_stack = <<>>

\* C3: when one of the four checks fails main() returns 1 at the first
\* failing check (directory, replacement, prefix, suffix) without scanning,
\* prompting or changing the filesystem; the scan starts only when all four
\* pass.
C3_ValidationBeforeScan ==
    pc \notin {"off", "start"} =>
        IF FirstFailingCheck # "none"
        THEN /\ pc = "done"
             /\ exit_code = 1
             /\ error_message = FirstFailingCheck
             /\ ScanNotStarted
             /\ ~prompted
             /\ DirectoryUnchanged
        ELSE /\ error_message = "none"
             /\ exit_code # 1

\* directory, replacement and prefix pass, the suffix is too long
C3_Witness ==
    /\ pc = "done"
    /\ exit_code = 1
    /\ error_message = "suffix"
    /\ Len(args.suffix) > 100
    /\ args.prefix = <<"a">>

\* the files that are no longer under the name they had at the start
RenamesPerformed ==
    Cardinality({p \in UNION {{join(d, n) : n \in DOMAIN fs[d]} : d \in DOMAIN fs} :
                    fs[p.dir][p.name] # p})

LinesOfKind(kind) ==
    Cardinality({i \in 1..Len(log_entries) : log_entries[i].kind = kind})

\* C4: apply_renames processes every entry once, in list order, whatever
\* happened to the entries before it; on return success_count + error_count
\* is the number of entries, there is one RENAMED/SKIPPED/FAILED record per
\* entry, and success_count is the number of renames performed.
C4_EveryEntryProcessed ==
    (pc \in {"apply", "done"} /\ idx > 0) =>
        /\ Len(log_entries) = idx - 1
        /\ success_count + error_count = idx - 1
        /\ \A i \in 1..Len(log_entries) :
              /\ log_entries[i].original_path = files_to_rename[i].original_path
              /\ log_entries[i].kind \in {"RENAMED", "SKIPPED", "FAILED"}
        /\ success_count = RenamesPerformed
        /\ success_count = LinesOfKind("RENAMED")
        /\ pc = "done" =>
              /\ idx = Len(files_to_rename) + 1
              /\ success_count + error_count = Len(files_to_rename)

\* the first entry failed and the second one was renamed all the same
C4_Witness ==
    /\ pc = "done"
    /\ Len(files_to_rename) = 2
    /\ Len(log_entries) = 2
    /\ log_entries[1].kind = "FAILED"
    /\ log_entries[2].kind = "RENAMED"
    /\ success_count = 1
    /\ error_count = 1

Min(a, b) == IF a < b THEN a ELSE b

\* the files the loop body ran on: the cap stops the loop at the file that
\* exceeds it
Processed == SubSeq(encountered, 1, Min(Len(encountered), MAX_FILES_LIMIT))

Transformed(name) ==
    generate_new_filename(name, args.replace, args.prefix, args.suffix)

\* C5: in both modes every listed entry has a new name different from its
\* original name and an original name that does not start with '.', the
\* files_to_rename counter is the length of the list, and the files the
\* transform leaves alone are counted as already clean and never listed.
C5_EntriesAreRealRenames ==
    /\ \A i \in 1..Len(files_to_rename) :
          /\ files_to_rename[i].new_name # files_to_rename[i].original_name
          /\ ~StartsWithDot(files_to_rename[i].original_name)
    /\ stats.files_to_rename = Len(files_to_rename)
    /\ stats.files_already_clean =
          Cardinality({i \in 1..Len(Processed) :
              /\ ~StartsWithDot(Processed[i].name)
              /\ Transformed(Processed[i].name).new_filename = Processed[i].name})
    /\ \A i \in 1..Len(Processed) :
          Transformed(Processed[i].name).new_filename = Processed[i].name =>
              \A j \in 1..Len(files_to_rename) :
                  files_to_rename[j].original_path # Processed[i]

\* a recursive scan returned one entry and counted one file as clean
C5_Witness ==
    /\ pc = "previewed"
    /\ args.recursive
    /\ stats.files_to_rename = 1
    /\ stats.files_already_clean = 1
    /\ Len(files_to_rename) = 1


Counters == DOMAIN EmptyStats

\* C9 as stated: when a listing is denied, an error count of the scan result
\* goes up (directories_scanned counts directories, not errors).
C9_DeniedListingCounted ==
    [][denied' # denied =>
        \E k \in Counters \ {"directories_scanned"} : stats'[k] > stats[k]
      ]_vars

\* C9 amended: when a listing is denied the scan of that directory is
\* given up, no counter of the scan result records the failure (stats has
\* no error counter: recursive mode leaves every counter as it is,
\* non-recursive mode only has directories_scanned = 1), the entries
\* collected so far are kept, and the run is not ended: it goes on to the
\* preview and returns 0.
C9_DeniedListingNotFatal ==
    /\ [][denied' # denied =>
            /\ \A k \in Counters \ {"directories_scanned"} : stats'[k] = stats[k]
            /\ stats'.directories_scanned =
                   IF args.recursive THEN stats.directories_scanned ELSE 1
            /\ files_to_rename' = files_to_rename
            /\ encountered' = encountered
            /\ pending' = {}
            /\ pc' \in {"walk", "preview"}
            /\ exit_code' = -1
         ]_vars
    /\ [](\A i \in 1..Len(encountered) : encountered[i].dir \notin denied)
    /\ []((pc = "done" /\ denied # {}) => exit_code = 0)

\* the listing of root/s was denied and the preview shows the entries found
\* in the root
C9_Witness ==
    /\ pc = "previewed"
    /\ denied = {"sub"}
    /\ args.recursive
    /\ Len(files_to_rename) > 0
    /\ stats.directories_scanned = 1

RECURSIVE EntriesOf(_)
\* the entries of a sequence of files, in its order
EntriesOf(paths) ==
    IF paths = <<>> THEN <<>>
    ELSE LET p == Head(paths)
             new == Transformed(p.name).new_filename
         IN (IF ~StartsWithDot(p.name) /\ new # p.name
             THEN <<[original_path |-> p, new_path |-> join(p.dir, new),
                     original_name |-> p.name, new_name |-> new]>>
             ELSE <<>>) \o EntriesOf(Tail(paths))

\* C10: when the count of files exceeds MAX_FILES_LIMIT the scan stops at
\* that file and returns, without raising, the list built from the first
\* MAX_FILES_LIMIT files in encounter order; the list never has more than
\* MAX_FILES_LIMIT entries and the run goes on to the preview.
C10_CapKeepsPartialList ==
    /\ [](/\ Len(files_to_rename) <= MAX_FILES_LIMIT
          /\ files_to_rename = EntriesOf(Processed)
          /\ Len(encountered) = stats.total_files_scanned
          /\ stats.total_files_scanned > MAX_FILES_LIMIT =>
                /\ stats.total_files_scanned = MAX_FILES_LIMIT + 1
                /\ pc \in {"preview", "previewed", "apply", "done"}
                /\ exit_code # 1)
    /\ [][(/\ stats.total_files_scanned <= MAX_FILES_LIMIT
           /\ stats'.total_files_scanned > MAX_FILES_LIMIT) =>
              /\ pc' = "preview"
              /\ files_to_rename' = files_to_rename
              /\ exit_code' = -1
         ]_vars

\* the scan stopped at the file after the cap and the preview shows the
\* entries of the files before it
C10_Witness ==
    /\ pc = "previewed"
    /\ stats.total_files_scanned = MAX_FILES_LIMIT + 1
    /\ Len(files_to_rename) = MAX_FILES_LIMIT
    /\ stats.files_to_rename = MAX_FILES_LIMIT

\* the directories under a hidden subdirectory of the root: root/.g and
\* root/.g/t
BelowHidden == {"hid", "deep"}

HiddenNames(names) == {n \in names : StartsWithDot(n)}

ScanOver ==
    /\ pc \in {"preview", "previewed", "apply", "done"}
    /\ error_message = "none"

\* the scanned directory holds hidden files and hidden subdirectories only
OnlyHidden ==
    /\ HiddenNames(DOMAIN fs0["root"]) = DOMAIN fs0["root"]
    /\ HiddenNames(SubdirNames("root")) = SubdirNames("root")

\* the recursive walk counts each hidden subdirectory of a directory it
\* lists, never descends into it, and no file below it is visited, counted
\* or listed
HiddenDirsPruned ==
    /\ [](args.recursive =>
            /\ cur_dir \notin BelowHidden
            /\ \A i \in 1..Len(walk_stack) : walk_stack[i] \notin BelowHidden
            /\ \A i \in 1..Len(encountered) :
                  encountered[i].dir \notin BelowHidden
            /\ \A i \in 1..Len(files_to_rename) :
                  files_to_rename[i].original_path.dir \notin BelowHidden
            /\ stats.total_files_scanned = Len(encountered))
    /\ [][(/\ args.recursive
           /\ stats'.directories_scanned = stats.directories_scanned + 1) =>
              stats'.hidden_dirs_skipped = stats.hidden_dirs_skipped
                  + Cardinality(HiddenNames(SubdirNames(cur_dir')))
         ]_vars

\* C11 as stated: the recursive walk prunes and counts every hidden
\* subdirectory it meets and visits nothing below it; scanning a directory
\* of hidden files and hidden subdirectories only returns no entry, counts
\* every direct hidden file in hidden_files_skipped and every direct hidden
\* subdirectory in hidden_dirs_skipped.
C11_HiddenOnlyAllCounted ==
    /\ HiddenDirsPruned
    /\ []((ScanOver /\ OnlyHidden) =>
            /\ files_to_rename = <<>>
            /\ stats.hidden_files_skipped = Cardinality(DOMAIN fs0["root"])
            /\ stats.hidden_dirs_skipped = Cardinality(SubdirNames("root")))

\* C11 amended: the recursive walk prunes and counts every hidden
\* subdirectory it meets and visits nothing below it; scanning a directory
\* of hidden files and hidden subdirectories only returns no entry, and,
\* when its listing is not denied and it holds at most MAX_FILES_LIMIT
\* files, counts every direct hidden file in hidden_files_skipped and every
\* direct hidden subdirectory in hidden_dirs_skipped.
C11_HiddenPrunedAndCounted ==
    /\ HiddenDirsPruned
    /\ []((ScanOver /\ OnlyHidden) =>
            /\ files_to_rename = <<>>
            /\ stats.files_to_rename = 0
            /\ stats.files_already_clean = 0
            /\ ("root" \notin denied
                /\ Cardinality(DOMAIN fs0["root"]) <= MAX_FILES_LIMIT) =>
                  /\ stats.hidden_files_skipped =
                         Cardinality(DOMAIN fs0["root"])
                  /\ stats.hidden_dirs_skipped =
                         Cardinality(SubdirNames("root")))

\* a recursive scan of a root that holds two hidden files and the hidden
\* subdirectory .g came to the preview with both files and .g counted
C11_Witness ==
    /\ pc = "previewed"
    /\ args.recursive
    /\ DOMAIN fs = DirIds \ {"sub"}
    /\ Cardinality(DOMAIN fs0["root"]) = 2
    /\ OnlyHidden
    /\ files_to_rename = <<>>
    /\ stats.hidden_files_skipped = 2
    /\ stats.hidden_dirs_skipped = 1
    /\ stats.directories_scanned = 1

\* the scan of a root of three hidden files stopped at the cap
C11_WitnessCap ==
    /\ pc = "previewed"
    /\ OnlyHidden
    /\ Cardinality(DOMAIN fs0["root"]) = 3
    /\ stats.total_files_scanned = MAX_FILES_LIMIT + 1
    /\ stats.hidden_files_skipped = MAX_FILES_LIMIT

\* the paths under which a file is found now
PathsNow == UNION {{join(d, n) : n \in DOMAIN fs[d]} : d \in DOMAIN fs}

\* the places where the file that started at path p is now
PlacesOf(p) == {q \in PathsNow : fs[q.dir][q.name] = p}

\* the new names the list proposes for the file that started at path p
ProposedNames(p) ==
    {files_to_rename[i].new_name :
        i \in {j \in 1..Len(files_to_rename) :
                 files_to_rename[j].original_path = p}}

\* C12: at every step of the rename loop each directory holds as many files
\* as before the run, and each file is found at exactly one place: in its
\* original directory, under its original name or under the new name the
\* list proposes for it.
C12_NoFileLostOrMerged ==
    /\ DOMAIN fs = DOMAIN fs0
    /\ \A d \in DOMAIN fs0 :
          /\ Cardinality(DOMAIN fs[d]) = Cardinality(DOMAIN fs0[d])
          /\ \A n \in DOMAIN fs0[d] :
                /\ Cardinality(PlacesOf(join(d, n))) = 1
                /\ \A q \in PlacesOf(join(d, n)) :
                      /\ q.dir = d
                      /\ q.name \in {n} \cup ProposedNames(join(d, n))

\* the new name of the second entry is the original name of the first, and
\* both were renamed: 'aa' to 'aaa', then 'a' to 'aa'
C12_Witness ==
    /\ pc = "done"
    /\ Len(files_to_rename) = 2
    /\ Len(log_entries) = 2
    /\ files_to_rename[2].new_name = files_to_rename[1].original_name
    /\ log_entries[1].kind = "RENAMED"
    /\ log_entries[2].kind = "RENAMED"
    /\ fs["root"][files_to_rename[1].original_name]
           = files_to_rename[2].original_path

\* two entries of the root have the same new name: the first was renamed,
\* the second skipped
C12_WitnessCollision ==
    /\ pc = "done"
    /\ Len(files_to_rename) = 2
    /\ Len(log_entries) = 2
    /\ files_to_rename[1].new_path = files_to_rename[2].new_path
    /\ log_entries[1].kind = "RENAMED"
    /\ log_entries[2].kind = "SKIPPED"

(***************************************************************************)
(* Transform harness: generate_new_filename applied to a name, then to its *)
(* own output                                                              *)
(***************************************************************************)
NameAlphabet == {"a", ".", " "}

RECURSIVE StringsUpTo(_, _)
StringsUpTo(alphabet, n) ==
    IF n = 0 THEN {<<>>}
    ELSE LET shorter == StringsUpTo(alphabet, n - 1)
         IN shorter \cup {<<c>> \o s : c \in alphabet,
                                      s \in {x \in shorter : Len(x) = n - 1}}

TNames == StringsUpTo(NameAlphabet, MaxNameLen) \ {<<>>}

TReplacements == {<<>>, <<"_">>, <<".">>, <<" ">>, <<" ", "x">>, <<"/">>,
                  Rep("_", MAX_REPLACEMENT_LEN),
                  Rep("_", MAX_REPLACEMENT_LEN + 1)}

TPrefixes == {<<>>, <<"p">>, <<"v", ".">>, <<":">>,
              Rep("p", MAX_PREFIX_SUFFIX_LEN + 1)}

TSuffixes == {<<>>, <<"s">>, <<".", "b">>, <<"*">>}

TInit ==
    /\ t_pc = "input"
    /\ t_name \in TNames
    /\ t_replacement \in {r \in TReplacements : validate_replacement_char(r)}
    /\ t_prefix \in {p \in TPrefixes : validate_prefix_suffix(p)}
    /\ t_suffix \in {s \in TSuffixes : validate_prefix_suffix(s)}
    /\ t_out = <<>>
    /\ MainOff

\* first call
TransformOnce ==
    /\ t_pc = "input"
    /\ t_out' = <<generate_new_filename(t_name, t_replacement, t_prefix,
                                        t_suffix)>>
    /\ t_pc' = "once"
    /\ UNCHANGED <<t_name, t_replacement, t_prefix, t_suffix, mvars>>

\* second call, on the output of the first
TransformAgain ==
    /\ t_pc = "once"
    /\ ~t_out[1].raised
    /\ t_out' = Append(t_out, generate_new_filename(t_out[1].new_filename,
                                  t_replacement, t_prefix, t_suffix))
    /\ t_pc' = "twice"
    /\ UNCHANGED <<t_name, t_replacement, t_prefix, t_suffix, mvars>>

TNext == TransformOnce \/ TransformAgain

SpecT == TInit /\ [][TNext]_vars

(***************************************************************************)
(* Claims about the transform                                              *)
(***************************************************************************)
RECURSIVE EachReplaced(_, _)
\* b with each dot and each space replaced by exactly one copy of rep, every
\* other character kept in place
EachReplaced(b, rep) ==
    IF b = <<>> THEN <<>>
    ELSE (IF Head(b) \in {".", " "} THEN rep ELSE <<Head(b)>>)
         \o EachReplaced(Tail(b), rep)

\* C6: for a non-hidden name whose base has a dot or space, or with a
\* non-empty prefix or suffix, the result is prefix + base' + suffix +
\* extension, base' being the base with each dot and each space replaced by
\* exactly one copy of replacement; otherwise the name comes back unchanged
\* with changed = false.
C6_EachSeparatorReplacedOnce ==
    (t_pc \in {"once", "twice"} /\ ~StartsWithDot(t_name)) =>
        IF needs_char_replacement(t_name) \/ t_prefix # <<>> \/ t_suffix # <<>>
        THEN t_out[1].new_filename =
                 t_prefix \o EachReplaced(base_name(t_name), t_replacement)
                          \o t_suffix \o extension(t_name)
        ELSE /\ t_out[1].new_filename = t_name
             /\ ~t_out[1].was_changed

\* C7: with empty prefix and suffix, a second application to the first
\* output returns it unchanged with changed = false whenever the output's
\* base has no dot or space left; and for a replacement without dot or space
\* the first output is settled: transform(transform(n)) = transform(n).
C7_SecondApplicationSettled ==
    (t_pc = "twice" /\ t_prefix = <<>> /\ t_suffix = <<>>) =>
        /\ ~needs_char_replacement(t_out[1].new_filename) =>
               t_out[2] = [new_filename |-> t_out[1].new_filename,
                           was_changed |-> FALSE, raised |-> FALSE]
        /\ Chars(t_replacement) \cap {".", " "} = {} =>
               /\ ~t_out[2].raised
               /\ t_out[2].new_filename = t_out[1].new_filename

\* C8 as stated: for every non-hidden name the extension of the returned
\* name equals the extension of the original name, names without extension
\* included.
C8_ExtensionPreservedAlways ==
    (t_pc \in {"once", "twice"} /\ ~StartsWithDot(t_name)) =>
        extension(t_out[1].new_filename) = extension(t_name)

\* C8 amended: for every non-hidden name that contains a dot the extension
\* of the returned name equals the extension of the original name; for a
\* name without a dot the returned name has no extension either whenever
\* replacement, prefix and suffix contain no dot.
C8_ExtensionPreserved ==
    (/\ t_pc \in {"once", "twice"}
     /\ ~StartsWithDot(t_name)
     /\ \/ RFind(t_name, ".") # 0
        \/ "." \notin Chars(t_replacement) \cup Chars(t_prefix)
                      \cup Chars(t_suffix)) =>
        extension(t_out[1].new_filename) = extension(t_name)

\* a name with an extension and inner dots was rewritten with a replacement,
\* prefix and suffix that all contain dots
C8_Witness ==
    /\ t_pc = "once"
    /\ t_name = <<"a", ".", "a", ".">>
    /\ t_replacement = <<".">>
    /\ t_prefix = <<"v", ".">>
    /\ t_suffix = <<".", "b">>
    /\ t_out[1].was_changed
    /\ t_out[1].new_filename = <<"v", ".", "a", ".", "a", ".", "b", ".">>

====
